---- MODULE Spec2Model ----
(***************************************************************************)
(* LocalIndex (semantic_router/index/local.py): an in-memory vector index  *)
(* holding three parallel collections: index (a 2-D array, one row per     *)
(* entry), routes and utterances (Python lists), all None until the first  *)
(* add.                                                                    *)
(*                                                                         *)
(* Conventions.  A Python value that may be None is a record with a field  *)
(* `none`.  The array is [none, ncols, rows]: numpy keeps the column count *)
(* of an array with zero rows, so ncols is state of its own.  Positions    *)
(* are 1-based here and 0-based in Python.  `np` is numpy (the file uses   *)
(* it without importing it).  similarity_matrix and top_scores live in     *)
(* semantic_router.linear, which is not part of the sources at hand.       *)
(***************************************************************************)
EXTENDS Integers, Sequences, FiniteSets, TLC

VARIABLES index, routes, utterances, ret, hist, live, deleted,
          held, wpc, wcall

vars == <<index, routes, utterances, ret, hist, live, deleted, held, wpc, wcall>>

\* What only the specifications of a held result (SpecSnap) and of two
\* callers (SpecConc) use: a result of get_routes a caller still holds, and
\* the line a call of add or delete has reached with its arguments.
aux == <<held, wpc, wcall>>

store == <<index, routes, utterances>>

\* Bound: the number of successful add calls in a run.
MaxLen == 3

\* Inputs of the calls.
Routes == {"a", "b"}

Utterances == {"u1", "u2"}

Vectors == {<<3>>, <<1, 0>>, <<0, 2>>}

Queries == {<<1>>, <<1, 2>>}

TopKs == 1 .. MaxLen

\* query's default for top_k.
DefaultTopK == 5

----------------------------------------------------------------------------
\* Helpers over sequences.

Range(s) == {s[i] : i \in 1 .. Len(s)}

\* The subsequence of s at the positions that are in keep, in order.
RECURSIVE Keep(_, _, _)
Keep(s, keep, i) ==
    IF i > Len(s) THEN <<>>
    ELSE (IF i \in keep THEN <<s[i]>> ELSE <<>>) \o Keep(s, keep, i + 1)

Min(a, b) == IF a <= b THEN a ELSE b

----------------------------------------------------------------------------
\* Python values.

NoneArray == [none |-> TRUE, ncols |-> 0, rows |-> <<>>]

NoneList == [none |-> TRUE, items |-> <<>>]

List(s) == [none |-> FALSE, items |-> s]

Returned(op, arg, value) ==
    [op |-> op, arg |-> arg, raised |-> "none", msg |-> "", value |-> value]

Raised(op, arg, exc, msg) ==
    [op |-> op, arg |-> arg, raised |-> exc, msg |-> msg, value |-> <<>>]

----------------------------------------------------------------------------
\* numpy operations used by the class.

\* vector.reshape(1, -1): a 1 x D array.
reshape(vector) == [none |-> FALSE, ncols |-> Len(vector), rows |-> <<vector>>]

\* np.vstack accepting a row of any width.
vstack_unchecked(arr, vector) == FALSE

\* np.vstack([index, vector]) raises ValueError unless the widths agree.
vstack_fails(arr, vector) == Len(vector) # arr.ncols

vstack(arr, vector) == [arr EXCEPT !.rows = Append(arr.rows, vector)]

\* np.delete(index, delete_idx, axis=0): the rows not in delete_idx; the
\* width is kept, also when no row is left.
np_delete(arr, idx) ==
    [arr EXCEPT !.rows = Keep(arr.rows, (1 .. Len(arr.rows)) \ idx, 1)]

----------------------------------------------------------------------------
\* semantic_router.linear, the collaborator of query.

RECURSIVE Dot(_, _)
Dot(x, y) ==
    IF x = <<>> \/ y = <<>> THEN 0
    ELSE Head(x) * Head(y) + Dot(Tail(x), Tail(y))

\* similarity_matrix(query_vector, index): one score per stored row.
similarity_matrix(q, arr) == [i \in 1 .. Len(arr.rows) |-> Dot(q, arr.rows[i])]

\* The positions of the k highest scores among rem, highest first; equal
\* scores in position order.
RECURSIVE TopFrom(_, _, _)
TopFrom(sim, rem, k) ==
    IF k = 0 \/ rem = {} THEN <<>>
    ELSE LET best == CHOOSE i \in rem :
                        \A j \in rem : sim[i] > sim[j] \/ (sim[i] = sim[j] /\ i <= j)
         IN  <<best>> \o TopFrom(sim, rem \ {best}, k - 1)

\* top_scores(sim_matrix, top_k): (scores, indices), at most as many as
\* there are scores.
top_scores(sim, k) ==
    LET idx == TopFrom(sim, 1 .. Len(sim), Min(k, Len(sim)))
    IN  [scores |-> [j \in 1 .. Len(idx) |-> sim[idx[j]]], indices |-> idx]

----------------------------------------------------------------------------
\* LocalIndex.

\* __init__ with its defaults.
Init ==
    /\ index = NoneArray
    /\ routes = NoneList
    /\ utterances = NoneList
    /\ ret = Returned("init", <<>>, <<>>)
    /\ hist = <<>>
    /\ live = <<>>
    /\ deleted = FALSE
    /\ held = [taken |-> FALSE, r_shared |-> FALSE, u_shared |-> FALSE,
               r_items |-> <<>>, u_items |-> <<>>]
    /\ wpc = "idle"
    /\ wcall = <<>>

\* add(route, utterance, vector).  hist and live are history variables: the
\* entries added so far, and those of them no delete call has named since.
Add(route, utterance, vector) ==
    /\ Len(hist) < MaxLen
    /\ LET arg == <<vector, route, utterance>> IN
       IF index.none
       THEN /\ index' = reshape(vector)
            /\ routes' = List(<<route>>)
            /\ utterances' = List(<<utterance>>)
            /\ ret' = Returned("add", arg, <<>>)
            /\ hist' = Append(hist, arg)
            /\ live' = Append(live, arg)
       ELSE IF vstack_fails(index, vector)
       THEN /\ ret' = Raised("add", arg, "ValueError", "vstack: dimensions must match")
            /\ UNCHANGED <<index, routes, utterances, hist, live>>
       ELSE /\ index' = vstack(index, vector)
            /\ routes' = List(Append(routes.items, route))
            /\ utterances' = List(Append(utterances.items, utterance))
            /\ ret' = Returned("add", arg, <<>>)
            /\ hist' = Append(hist, arg)
            /\ live' = Append(live, arg)
    /\ UNCHANGED deleted

\* get_routes(): list(zip(self.routes, self.utterances)); zip stops at the
\* shorter list and raises TypeError on None.
get_routes ==
    IF routes.none \/ utterances.none
    THEN Raised("get_routes", <<>>, "TypeError", "zip argument is not iterable")
    ELSE Returned("get_routes", <<>>,
                  [i \in 1 .. Min(Len(routes.items), Len(utterances.items)) |->
                      <<routes.items[i], utterances.items[i]>>])

\* get_routes that first replaces None lists by empty ones.
GetRoutesNormalising ==
    /\ ret' = get_routes
    /\ routes' = IF routes.none THEN List(<<>>) ELSE routes
    /\ utterances' = IF utterances.none THEN List(<<>>) ELSE utterances
    /\ UNCHANGED <<index, hist, live, deleted>>

GetRoutes ==
    /\ ret' = get_routes
    /\ UNCHANGED <<index, routes, utterances, hist, live, deleted>>

\* describe with shape[0] and shape[1] taken for each other.
describe_swapped(arr) ==
    [type |-> "local",
     dimensions |-> IF ~arr.none THEN Len(arr.rows) ELSE 0,
     vectors |-> IF ~arr.none THEN arr.ncols ELSE 0]

\* describe(): shape[1] and shape[0] of the array, 0 and 0 when it is None.
describe(arr) ==
    [type |-> "local",
     dimensions |-> IF ~arr.none THEN arr.ncols ELSE 0,
     vectors |-> IF ~arr.none THEN Len(arr.rows) ELSE 0]

Describe ==
    /\ ret' = Returned("describe", <<>>, describe(index))
    /\ UNCHANGED <<index, routes, utterances, hist, live, deleted>>

\* query: the guard of line 69.
query_not_populated == index.none

\* query reading the labels from self.utterances instead of self.routes.
query_utterances(indices) == [j \in 1 .. Len(indices) |-> utterances.items[indices[j]]]

\* query: the labels of line 73, [self.routes[i] for i in indices].
query_routes(indices) == [j \in 1 .. Len(indices) |-> routes.items[indices[j]]]

\* query(query_vector, top_k).  The query vector has the width of the
\* stored rows, which is what similarity_matrix requires of its caller.
Query(q, top_k) ==
    /\ index.none \/ Len(q) = index.ncols
    /\ LET arg == <<q, top_k>> IN
       IF query_not_populated
       THEN ret' = Raised("query", arg, "ValueError", "Index is not populated.")
       ELSE LET top == top_scores(similarity_matrix(q, index), top_k) IN
            IF routes.none
            THEN ret' = Raised("query", arg, "TypeError", "NoneType is not subscriptable")
            ELSE IF \E j \in 1 .. Len(top.indices) : top.indices[j] > Len(routes.items)
            THEN ret' = Raised("query", arg, "IndexError", "list index out of range")
            ELSE ret' = Returned("query", arg,
                                 [scores |-> top.scores, routes |-> query_routes(top.indices)])
    /\ UNCHANGED <<index, routes, utterances, hist, live, deleted>>

\* delete without the check of line 83.
delete_unguarded == FALSE

\* delete: the guard of line 83.
delete_not_populated == routes.none

\* delete: line 85, the positions whose label is route_name.
delete_idx(items, route_name) == {i \in 1 .. Len(items) : items[i] = route_name}

\* delete: line 87, the labels other than route_name.
delete_routes(items, route_name) ==
    Keep(items, (1 .. Len(items)) \ delete_idx(items, route_name), 1)

\* delete: line 88.  Its condition reads `i`, a name bound nowhere in scope
\* (the `i` of line 85 is local to that comprehension), so evaluating it for
\* the first utterance raises NameError; with no utterance it is never
\* evaluated and the result is the empty list.
delete_utterances_raises(items) == Len(items) > 0

\* delete(route_name): lines 86 and 87 have assigned self.index and
\* self.routes by the time line 88 raises.
Delete(route_name) ==
    /\ IF delete_not_populated
       THEN /\ ret' = Raised("delete", route_name, "ValueError", "Routes are not populated.")
            /\ UNCHANGED <<index, routes, utterances, live, deleted>>
       ELSE IF routes.none \/ index.none \/ utterances.none
       THEN /\ ret' = Raised("delete", route_name, "TypeError", "NoneType is not iterable")
            /\ UNCHANGED <<index, routes, utterances, live, deleted>>
       ELSE /\ index' = np_delete(index, delete_idx(routes.items, route_name))
            /\ routes' = List(delete_routes(routes.items, route_name))
            /\ IF delete_utterances_raises(utterances.items)
               THEN /\ ret' = Raised("delete", route_name, "NameError", "name 'i' is not defined")
                    /\ UNCHANGED utterances
               ELSE /\ ret' = Returned("delete", route_name, <<>>)
                    /\ utterances' = List(<<>>)
            /\ live' = Keep(live, {i \in 1 .. Len(live) : live[i][2] # route_name}, 1)
            /\ deleted' = TRUE
    /\ UNCHANGED hist

\* One caller, each call running to its end before the next.
Next ==
    \/ \E r \in Routes, u \in Utterances, v \in Vectors : Add(r, u, v) /\ UNCHANGED aux
    \/ \E r \in Routes : Delete(r) /\ UNCHANGED aux
    \/ \E q \in Queries, k \in TopKs : Query(q, k) /\ UNCHANGED aux
    \/ GetRoutes /\ UNCHANGED aux
    \/ Describe /\ UNCHANGED aux

Spec == Init /\ [][Next]_vars

----------------------------------------------------------------------------
\* A caller that keeps a result of get_routes while the index goes on
\* changing.  The kept object either reads the list objects of the index
\* (r_shared, u_shared) or has its own copy of their items.  add appends to
\* the existing list objects in place (lines 33, 34) and binds new ones on
\* the first add (lines 29, 30); delete binds a new routes list (line 87)
\* and, when it gets there, a new utterances list (line 88).

\* get_routes returning the zip object itself, which reads the two lists
\* when it is iterated.
get_routes_lazy == TRUE

\* get_routes: list(...) of line 43 copies the pairs out of the two lists.
get_routes_shared == FALSE

\* The kept object after self.routes (rebound_r) or self.utterances
\* (rebound_u) was bound to a new list: it keeps the old list as it was.
Rebound(h, rebound_r, rebound_u) ==
    [h EXCEPT !.r_shared = h.r_shared /\ ~rebound_r,
              !.r_items = IF h.r_shared /\ rebound_r THEN routes.items ELSE h.r_items,
              !.u_shared = h.u_shared /\ ~rebound_u,
              !.u_items = IF h.u_shared /\ rebound_u THEN utterances.items ELSE h.u_items]

\* What the caller reads in the kept object when the index holds rts and uts.
ReadHeld(h, rts, uts) ==
    LET r == IF h.r_shared THEN rts.items ELSE h.r_items
        u == IF h.u_shared THEN uts.items ELSE h.u_items
    IN  [i \in 1 .. Min(Len(r), Len(u)) |-> <<r[i], u[i]>>]

HeldAdd(route, utterance, vector) ==
    /\ Add(route, utterance, vector)
    /\ held' = Rebound(held, index.none, index.none)
    /\ UNCHANGED <<wpc, wcall>>

HeldDelete(route_name) ==
    /\ Delete(route_name)
    /\ held' = Rebound(held, ~routes.none, ~routes.none /\ ret'.raised = "none")
    /\ UNCHANGED <<wpc, wcall>>

HeldGetRoutes ==
    /\ GetRoutes
    /\ held' = IF ret'.raised = "none"
               THEN [taken |-> TRUE,
                     r_shared |-> get_routes_shared, u_shared |-> get_routes_shared,
                     r_items |-> routes.items, u_items |-> utterances.items]
               ELSE held
    /\ UNCHANGED <<wpc, wcall>>

NextSnap ==
    \/ \E r \in Routes, u \in Utterances, v \in Vectors : HeldAdd(r, u, v)
    \/ \E r \in Routes : HeldDelete(r)
    \/ HeldGetRoutes

SpecSnap == Init /\ [][NextSnap]_vars

----------------------------------------------------------------------------
\* Two callers without external exclusion: one runs add and delete, whose
\* assignments to self.index, self.routes and self.utterances are separate
\* statements, the other runs query and get_routes between them.  wpc is the
\* line the first caller is about to run, wcall its arguments.  hist and
\* live are not kept up here; the utterances, which no call shortens, count
\* the adds.  The second caller queries with the default top_k.

\* add, lines 27, 28 and 32: the array is assigned first.
AddBegin(route, utterance, vector) ==
    /\ wpc = "idle"
    /\ Len(utterances.items) < MaxLen
    /\ LET arg == <<vector, route, utterance>> IN
       IF index.none
       THEN /\ index' = reshape(vector)
            /\ wpc' = "add_29"
            /\ wcall' = arg
            /\ UNCHANGED ret
       ELSE IF vstack_fails(index, vector)
       THEN /\ ret' = Raised("add", arg, "ValueError", "vstack: dimensions must match")
            /\ UNCHANGED <<index, wpc, wcall>>
       ELSE /\ index' = vstack(index, vector)
            /\ wpc' = "add_33"
            /\ wcall' = arg
            /\ UNCHANGED ret
    /\ UNCHANGED <<routes, utterances, hist, live, deleted, held>>

\* add leaving out the label of line 29 or 33.
AddRoutesSkipped ==
    /\ wpc \in {"add_29", "add_33"}
    /\ routes' = IF wpc = "add_29" THEN List(<<>>) ELSE routes
    /\ wpc' = IF wpc = "add_29" THEN "add_30" ELSE "add_34"
    /\ UNCHANGED <<index, utterances, ret, hist, live, deleted, held, wcall>>

\* add, line 29 or 33.
AddRoutes ==
    /\ wpc \in {"add_29", "add_33"}
    /\ routes' = IF wpc = "add_29" THEN List(<<wcall[2]>>)
                                   ELSE List(Append(routes.items, wcall[2]))
    /\ wpc' = IF wpc = "add_29" THEN "add_30" ELSE "add_34"
    /\ UNCHANGED <<index, utterances, ret, hist, live, deleted, held, wcall>>

\* add, line 30 or 34, and the return.
AddUtterances ==
    /\ wpc \in {"add_30", "add_34"}
    /\ utterances' = IF wpc = "add_30" THEN List(<<wcall[3]>>)
                                       ELSE List(Append(utterances.items, wcall[3]))
    /\ ret' = Returned("add", wcall, <<>>)
    /\ wpc' = "idle"
    /\ wcall' = <<>>
    /\ UNCHANGED <<index, routes, hist, live, deleted, held>>

\* delete, lines 83 to 86: the rows go first.
DeleteBegin(route_name) ==
    /\ wpc = "idle"
    /\ IF delete_not_populated
       THEN /\ ret' = Raised("delete", route_name, "ValueError", "Routes are not populated.")
            /\ UNCHANGED <<index, wpc, wcall, deleted>>
       ELSE /\ index' = np_delete(index, delete_idx(routes.items, route_name))
            /\ wpc' = "delete_87"
            /\ wcall' = <<route_name>>
            /\ deleted' = TRUE
            /\ UNCHANGED ret
    /\ UNCHANGED <<routes, utterances, hist, live, held>>

\* delete, line 87.
DeleteRoutes ==
    /\ wpc = "delete_87"
    /\ routes' = List(delete_routes(routes.items, wcall[1]))
    /\ wpc' = "delete_88"
    /\ UNCHANGED <<index, utterances, ret, hist, live, deleted, held, wcall>>

\* delete, line 88, and the return or the NameError.
DeleteUtterances ==
    /\ wpc = "delete_88"
    /\ IF delete_utterances_raises(utterances.items)
       THEN /\ ret' = Raised("delete", wcall[1], "NameError", "name 'i' is not defined")
            /\ UNCHANGED utterances
       ELSE /\ ret' = Returned("delete", wcall[1], <<>>)
            /\ utterances' = List(<<>>)
    /\ wpc' = "idle"
    /\ wcall' = <<>>
    /\ UNCHANGED <<index, routes, hist, live, deleted, held>>

NextConc ==
    \/ \E r \in Routes, u \in Utterances, v \in Vectors : AddBegin(r, u, v)
    \/ AddRoutes
    \/ AddUtterances
    \/ \E r \in Routes : DeleteBegin(r)
    \/ DeleteRoutes
    \/ DeleteUtterances
    \/ \E q \in Queries : Query(q, DefaultTopK) /\ UNCHANGED aux
    \/ GetRoutes /\ UNCHANGED aux

SpecConc == Init /\ [][NextConc]_vars

----------------------------------------------------------------------------
\* Properties.

Fresh == <<NoneArray, NoneList, NoneList>>

NotPopulated(r) ==
    /\ r.raised = "ValueError"
    /\ r.msg \in {"Index is not populated.", "Routes are not populated."}

\* The (route, utterance) pairs of a sequence of added entries.
Pairs(entries) == [i \in 1 .. Len(entries) |-> <<entries[i][2], entries[i][3]>>]

\* C1: after every add and delete call, returned or raised, the numbers of
\* stored vectors, route labels and utterances are equal, or all three
\* collections are uninitialized.
C1_LengthAlignment ==
    \/ index.none /\ routes.none /\ utterances.none
    \/ /\ ~index.none /\ ~routes.none /\ ~utterances.none
       /\ Len(index.rows) = Len(routes.items)
       /\ Len(routes.items) = Len(utterances.items)

\* C2: at every position the stored vector, route and utterance are a triple
\* that one add call passed together.
C2_PositionalAlignment ==
    ~index.none =>
        \A i \in 1 .. Len(index.rows) :
            /\ i <= Len(routes.items)
            /\ i <= Len(utterances.items)
            /\ <<index.rows[i], routes.items[i], utterances.items[i]>> \in Range(hist)

\* C3: delete(route_name) on an initialized index removes the entries labelled
\* route_name and no others: no such label is left, the counts of vectors (as
\* describe reports it), routes and utterances drop by the number of matches,
\* and the other entries are all still there.
C3_DeleteRemovesMatches ==
    [][(ret'.op = "delete" /\ ~routes.none /\ ~index.none /\ ~utterances.none) =>
        LET name == ret'.arg
            gone == delete_idx(routes.items, name)
            m    == Cardinality(gone)
            keep == (1 .. Len(routes.items)) \ gone
        IN  /\ \A i \in 1 .. Len(routes'.items) : routes'.items[i] # name
            /\ describe(index').vectors = describe(index).vectors - m
            /\ Len(routes'.items) = Len(routes.items) - m
            /\ Len(utterances'.items) = Len(utterances.items) - m
            /\ index'.rows = Keep(index.rows, keep, 1)
            /\ routes'.items = Keep(routes.items, keep, 1)
            /\ utterances'.items = Keep(utterances.items, keep, 1)]_vars

\* C4: delete of a label no stored entry carries, on a populated index,
\* returns normally and leaves vectors, routes and utterances as they were.
C4_DeleteNoMatchIsNoOp ==
    [][(/\ ret'.op = "delete"
        /\ ~routes.none
        /\ Len(routes.items) > 0
        /\ delete_idx(routes.items, ret'.arg) = {}) =>
            (ret'.raised = "none" /\ store' = store)]_vars

\* C5: get_routes returns the (route, utterance) pairs of the entries added
\* and not deleted, in the order they were added.
C5_InsertionOrder ==
    (ret.op = "get_routes" /\ ret.raised = "none") => ret.value = Pairs(live)

\* C6: on a never initialized index query and delete raise the not-populated
\* error and leave the index uninitialized, describe still reporting 0
\* dimensions and 0 vectors.
C6_NotPopulatedOnFresh ==
    [][(store = Fresh /\ ret'.op \in {"query", "delete"}) =>
        /\ NotPopulated(ret')
        /\ store' = Fresh
        /\ describe(index').dimensions = 0
        /\ describe(index').vectors = 0]_vars

C6_Witness ==
    /\ store = Fresh
    /\ ret.op = "delete"
    /\ NotPopulated(ret)

\* C7: query and delete raise the not-populated error whenever the index
\* holds zero entries, also when add populated it and delete emptied it.
C7_NotPopulatedWhenEmpty ==
    [][(ret'.op \in {"query", "delete"} /\ describe(index).vectors = 0) =>
        NotPopulated(ret')]_vars

\* C8: a delete that removes the last entries puts the index back in the
\* state of a freshly constructed one, describe reporting 0 dimensions and 0
\* vectors, and the next add may bring a vector of any dimension.
C8_ReturnToEmpty ==
    [][/\ (ret'.op = "delete" /\ describe(index).vectors > 0
                              /\ describe(index').vectors = 0) =>
            (store' = Fresh /\ describe(index').dimensions = 0)
       /\ (ret'.op = "add" /\ describe(index).vectors = 0) =>
            ret'.raised = "none"]_vars

\* C9: describe returns type "local", 0 dimensions and 0 vectors on an
\* uninitialized index, and D dimensions and N vectors after N >= 1
\* successful adds of vectors of dimension D and no delete.
C9_DescribeConsistency ==
    ret.op = "describe" =>
        /\ ret.raised = "none"
        /\ index.none =>
              ret.value = [type |-> "local", dimensions |-> 0, vectors |-> 0]
        /\ (~deleted /\ Len(hist) >= 1) =>
              \E D \in 1 .. 2 :
                  /\ \A i \in 1 .. Len(hist) : Len(hist[i][1]) = D
                  /\ ret.value = [type |-> "local", dimensions |-> D,
                                  vectors |-> Len(hist)]

C9_Witness ==
    /\ ret.op = "describe"
    /\ ~deleted
    /\ Len(hist) = 3
    /\ ret.value.dimensions = 2
    /\ ret.value.vectors = 3

\* C10: with N >= top_k stored entries query returns top_k scores in
\* descending order and top_k labels, the j-th label being the route stored
\* at the position of the j-th score, and no entry left out scores higher
\* than one returned.
C10_TopK ==
    (ret.op = "query" /\ ~index.none /\ Len(index.rows) >= ret.arg[2]) =>
        LET q == ret.arg[1]
            k == ret.arg[2]
            N == Len(index.rows)
            score(i) == Dot(q, index.rows[i])
        IN  /\ ret.raised = "none"
            /\ Len(ret.value.scores) = k
            /\ Len(ret.value.routes) = k
            /\ \A j \in 1 .. k - 1 : ret.value.scores[j] >= ret.value.scores[j + 1]
            /\ \E p \in [1 .. k -> 1 .. N] :
                  /\ \A j1, j2 \in 1 .. k : p[j1] = p[j2] => j1 = j2
                  /\ \A j \in 1 .. k :
                        /\ ret.value.scores[j] = score(p[j])
                        /\ ret.value.routes[j] = routes.items[p[j]]
                  /\ \A i \in (1 .. N) \ {p[j] : j \in 1 .. k} :
                        \A j \in 1 .. k : score(i) <= ret.value.scores[j]

C10_Witness ==
    /\ ret.op = "query"
    /\ ret.raised = "none"
    /\ Len(index.rows) = 3
    /\ ret.arg[2] = 2
    /\ ret.value.scores = <<4, 1>>
    /\ ret.value.routes[1] # ret.value.routes[2]

\* C11: once the index is not empty all stored vectors have the dimension of
\* the first vector added, and an add of a vector of another dimension raises
\* and leaves vectors, routes and utterances as they were.
C11_DimensionInvariant ==
    [][/\ (Len(hist') >= 1 /\ ~index'.none) =>
              \A i \in 1 .. Len(index'.rows) :
                  Len(index'.rows[i]) = Len(hist'[1][1])
       /\ (ret'.op = "add" /\ Len(hist) >= 1
                           /\ Len(ret'.arg[1]) # Len(hist[1][1])) =>
              (ret'.raised # "none" /\ store' = store)]_vars

C11_Witness ==
    /\ ret.op = "add"
    /\ ret.raised = "ValueError"
    /\ Len(index.rows) = 2
    /\ Len(ret.arg[1]) # Len(index.rows[1])

\* C12: in every state, the freshly constructed one included, get_routes
\* returns normally with one pair per stored entry, as many as describe
\* reports vectors.
C12_GetRoutesTotal ==
    ret.op = "get_routes" =>
        /\ ret.raised = "none"
        /\ Len(ret.value) = describe(index).vectors

\* C14: add on an empty index leaves the single-element sequences [vector],
\* [route], [utterance]; add on a populated index, with a vector of the
\* established dimension, appends the new element to each sequence, so the
\* earlier entries keep place and content and the count grows by one.
C14_AddAppendsOne ==
    [][ret'.op = "add" =>
        LET vector == ret'.arg[1]
            route == ret'.arg[2]
            utterance == ret'.arg[3]
        IN  /\ describe(index).vectors = 0 =>
                  /\ ret'.raised = "none"
                  /\ index'.rows = <<vector>>
                  /\ routes'.items = <<route>>
                  /\ utterances'.items = <<utterance>>
            /\ (describe(index).vectors > 0 /\ Len(vector) = Len(index.rows[1])) =>
                  /\ ret'.raised = "none"
                  /\ index'.rows = Append(index.rows, vector)
                  /\ routes'.items = Append(routes.items, route)
                  /\ utterances'.items = Append(utterances.items, utterance)
                  /\ describe(index').vectors = describe(index).vectors + 1]_vars

C16_AllOrNothing ==
    [][(ret'.op \in {"add", "delete", "query"} /\ ret'.raised # "none") =>
        store' = store]_vars

\* C17: query, get_routes and describe, returning or raising, leave vectors,
\* routes and utterances as they were.
C17_ReadsLeaveIndexAlone ==
    [][ret'.op \in {"query", "get_routes", "describe"} => store' = store]_vars

C17_Witness ==
    /\ ret.op = "query"
    /\ ret.raised = "none"
    /\ Len(index.rows) = 2
    /\ Len(ret.value.routes) = 2

\* C13: a result get_routes has returned reads the same after any add or
\* delete made on the index since.
C13_Snapshot ==
    [][(held.taken /\ ret'.op \in {"add", "delete"}) =>
        ReadHeld(held', routes', utterances') = ReadHeld(held, routes, utterances)]_vars

C13_Witness ==
    /\ held.taken
    /\ ret.op = "add"
    /\ ret.raised = "none"
    /\ Len(ReadHeld(held, routes, utterances)) = 1
    /\ Len(routes.items) = 2
    /\ Len(utterances.items) = 2

\* C18: with add and delete assigning the three collections in separate
\* steps, a second caller can meet them at different lengths, and a query a
\* selected position that has no route label; between calls the vectors and
\* the routes are as many, and so are the utterances until a delete has run.
C18_MisalignedOnlyMidCall ==
    /\ (ret.op = "query" /\ ret.raised \in {"IndexError", "TypeError"}) => wpc # "idle"
    /\ wpc = "idle" =>
          /\ index.none = routes.none
          /\ Len(index.rows) = Len(routes.items)
          /\ ~deleted =>
                /\ routes.none = utterances.none
                /\ Len(routes.items) = Len(utterances.items)

C18_Witness ==
    /\ ret.op = "query"
    /\ ret.raised = "IndexError"
    /\ wpc = "add_33"
    /\ ~deleted
    /\ Len(index.rows) = Len(routes.items) + 1
    /\ Len(routes.items) = Len(utterances.items)

====
